---- MODULE Spec2Model ----
(***************************************************************************)
(* Receipt capture: the local receipt history (lib/receipt-history.ts),    *)
(* the submission wrapper (lib/api.ts submitReceipt) and the submission    *)
(* orchestrator (components/ReceiptCapture.tsx), hosted by the App that    *)
(* mounts one capture modal per selected station.                          *)
(*                                                                         *)
(* Conventions.  A nullable number (number | null, and the NaN that        *)
(* parseFloat returns) is a set holding at most one integer: {} is         *)
(* null/NaN, {n} is n.  A text field is a sequence of one-character        *)
(* strings.  An ISO-8601 timestamp is the pair <<seconds, milliseconds>>.  *)
(* A quotient a / b that is left unrounded is the pair <<a, b>>.           *)
(***************************************************************************)
EXTENDS Integers, Sequences, FiniteSets, TLC

VARIABLES
    storage,            \* localStorage item 'pol-receipt-history'
    now,                \* wall clock, milliseconds (Date.now())
    appended,           \* store driver: entries appended since the last clear
    receiptStation,     \* App: station of the mounted capture modal
    phase,              \* ReceiptCapture: 'idle' | 'submitting' | 'success' | 'error'
    currentStep,        \* ReceiptCapture: wizard step 1..3
    imagePreview,       \* ReceiptCapture: preview URL or null
    imageBase64,        \* ReceiptCapture: compressed image or null
    submitInFlight,     \* ReceiptCapture: the in-flight guard (useRef)
    vehicleReg,         \* ReceiptCapture: form text
    odometerCurrent,    \* ReceiptCapture: form text
    odometerPrevious,   \* ReceiptCapture: form text
    litres,             \* ReceiptCapture: form text
    amount,             \* ReceiptCapture: form text
    useHistoryOdometer, \* ReceiptCapture: history lookup enabled
    duplicateWarning,   \* ReceiptCapture: duplicate warning showing
    resultMessage,      \* ReceiptCapture: message shown in success/error phase
    receiptResult,      \* ReceiptCapture: collaborator response or null
    pendingCompress,    \* compressImage promises of the mounted modal not yet settled
    pendingScan,        \* scanReceipt promises of the mounted modal not yet settled
    scanMode,           \* 'pending', 'scanning', 'success', 'error' or 'skipped'
    calls,              \* submitReceipt promises not yet settled
    issued              \* number of submitReceipt calls issued so far

storeVars == <<storage, now, appended>>

formVars == <<vehicleReg, odometerCurrent, odometerPrevious, litres, amount,
              useHistoryOdometer>>

modalVars == <<receiptStation, phase, currentStep, imagePreview, imageBase64,
               submitInFlight, formVars, duplicateWarning, resultMessage,
               receiptResult, pendingCompress, pendingScan, scanMode>>

vars == <<storeVars, modalVars, calls, issued>>

----------------------------------------------------------------------------
(* Bounds of the exploration.                                              *)

MaxAppends == 52
MaxTicks == 1
MaxIssued == 2
MaxPendingCompress == 2
MaxDupEntries == 2
MaxDupTicks == 2
MaxMetricEntries == 3
MaxTripEntries == 1
MaxIdAppends == 3
MaxPendingScan == 1
MaxIdTicks == 2

----------------------------------------------------------------------------
(* Program constants.                                                      *)

MAX_ENTRIES == 50

DUPLICATE_WINDOW_MS == 5 * 60 * 1000

----------------------------------------------------------------------------
(* Values.                                                                 *)

Null == {}

Min(a, b) == IF a < b THEN a ELSE b

\* new Date(ms).toISOString(): the instant written out in its fields.
toISOString(ms) == <<ms \div 1000, ms % 1000>>

\* new Date(iso).getTime(): the instant read back from its fields.
getTime(iso) == iso[1] * 1000 + iso[2]

----------------------------------------------------------------------------
(* lib/receipt-history.ts                                                  *)

\* The stored item: absent, or a text that is the JSON of an array of
\* entries ("array", the entries in items), the JSON of something that is
\* not an array ("object", such as {}), or no JSON at all ("invalid").
NoItem == [present |-> FALSE, json |-> "array", items |-> <<>>]

\* localStorage.setItem(STORAGE_KEY, JSON.stringify(history))
setItem(history) == [present |-> TRUE, json |-> "array", items |-> history]

\* getReceiptHistory(): [] when nothing is stored or JSON.parse throws, else
\* whatever JSON.parse returned.  The operator gives the entries of that
\* value; getReceiptHistoryIsArray tells whether the value is an array.
getReceiptHistory(store) ==
    IF ~store.present \/ store.json = "invalid" THEN <<>> ELSE store.items

\* Whether the value getReceiptHistory() returns is an array: the cast
\* "as ReceiptHistoryEntry[]" checks nothing.
getReceiptHistoryIsArray(store) ==
    ~store.present \/ store.json # "object"

\* for...of, filter, find and unshift on the value getReceiptHistory()
\* returned throw a TypeError when that value is not an array.
historyThrows(store) == ~getReceiptHistoryIsArray(store)

\* Variant: the length is never cut back.
truncate_never(history) == history

\* history.length = MAX_ENTRIES when history.length > MAX_ENTRIES
truncate(history) ==
    IF Len(history) > MAX_ENTRIES THEN SubSeq(history, 1, MAX_ENTRIES) ELSE history

\* Variant: the stored history is not read back before the write.
addReceiptToHistory_overwrite(store, entry, ms, rnd) ==
    setItem(truncate(<<[id |-> <<ms, rnd>>] @@ entry>>))

\* Variant: the entry is pushed at the back instead of unshifted.
addReceiptToHistory_push(store, entry, ms, rnd) ==
    LET history  == getReceiptHistory(store)
        newEntry == [id |-> <<ms, rnd>>] @@ entry
    IN  setItem(truncate(history \o <<newEntry>>))

\* Variant: the entries already stored are stamped again at the write.
addReceiptToHistory_restamp(store, entry, ms, rnd) ==
    LET history  == getReceiptHistory(store)
        newEntry == [id |-> <<ms, rnd>>] @@ entry
        stamped  == [i \in 1..Len(history) |->
                        [history[i] EXCEPT !.timestamp = toISOString(ms)]]
    IN  IF historyThrows(store) THEN store
        ELSE setItem(truncate(<<newEntry>> \o stamped))

\* addReceiptToHistory(entry): unshift the entry with a fresh id, truncate, persist.
\* The operator gives the stored item after the call; when unshift throws
\* nothing is written.
addReceiptToHistory(store, entry, ms, rnd) ==
    LET history  == getReceiptHistory(store)
        newEntry == [id |-> <<ms, rnd>>] @@ entry
    IN  IF historyThrows(store) THEN store
        ELSE setItem(truncate(<<newEntry>> \o history))

\* Variant: only the newest entry is removed.
clearReceiptHistory_newestOnly(store) ==
    LET history == getReceiptHistory(store)
    IN  IF Len(history) > 1 THEN setItem(Tail(history)) ELSE NoItem

\* clearReceiptHistory(): localStorage.removeItem(STORAGE_KEY)
clearReceiptHistory(store) == NoItem

----------------------------------------------------------------------------
(* Texts and numbers.                                                      *)

Digits == <<"0", "1", "2", "3", "4", "5", "6", "7", "8", "9">>

IsDigit(c) == \E i \in 1..10 : Digits[i] = c

DigitValue(c) == (CHOOSE i \in 1..10 : Digits[i] = c) - 1

Lower == <<"a", "b", "s", "x">>

UpperOf == <<"A", "B", "S", "X">>

\* String.prototype.toUpperCase, character by character.
upperChar(c) ==
    IF \E i \in 1..Len(Lower) : Lower[i] = c
    THEN UpperOf[CHOOSE i \in 1..Len(Lower) : Lower[i] = c]
    ELSE c

toUpperCase(text) == [i \in 1..Len(text) |-> upperChar(text[i])]

RECURSIVE trimStart(_)
trimStart(text) ==
    IF text # <<>> /\ Head(text) = " " THEN trimStart(Tail(text)) ELSE text

RECURSIVE trimEnd(_)
trimEnd(text) ==
    IF text # <<>> /\ text[Len(text)] = " "
    THEN trimEnd(SubSeq(text, 1, Len(text) - 1))
    ELSE text

\* String.prototype.trim
trim(text) == trimEnd(trimStart(text))

RECURSIVE digitPrefixValue(_, _)
digitPrefixValue(text, acc) ==
    IF text # <<>> /\ IsDigit(Head(text))
    THEN digitPrefixValue(Tail(text), acc * 10 + DigitValue(Head(text)))
    ELSE acc

\* parseFloat(text): the number written by the leading sign and digits, NaN
\* ({}) when the text does not start with them.
parseFloat(text) ==
    LET t == trimStart(text)
    IN  IF t # <<>> /\ IsDigit(Head(t)) THEN {digitPrefixValue(t, 0)}
        ELSE IF Len(t) >= 2 /\ Head(t) = "-" /\ IsDigit(t[2])
        THEN {0 - digitPrefixValue(Tail(t), 0)}
        ELSE {}

\* x || null for a number x: NaN and 0 are falsy.
orNull(x) == IF x = {0} THEN Null ELSE x

RECURSIVE decimalDigits(_)
decimalDigits(n) ==
    IF n < 10 THEN <<Digits[n + 1]>>
    ELSE decimalDigits(n \div 10) \o <<Digits[(n % 10) + 1]>>

\* String(n) for an integer n.
String(n) == IF n < 0 THEN <<"-">> \o decimalDigits(0 - n) ELSE decimalDigits(n)

\* The value of a non-null number.
valueOf(x) == CHOOSE n \in x : TRUE

----------------------------------------------------------------------------
(* lib/receipt-history.ts: per-vehicle lookups.                            *)

\* Variant: the first entry of the vehicle decides, whatever its odometer.
RECURSIVE firstOdometer_anyReading(_, _)
firstOdometer_anyReading(history, normalized) ==
    IF history = <<>> THEN Null
    ELSE IF toUpperCase(trim(Head(history).vehicleReg)) = normalized
         THEN Head(history).odometerCurrent
         ELSE firstOdometer_anyReading(Tail(history), normalized)

\* The for...of loop of getLastOdometerForVehicle.
RECURSIVE firstOdometer(_, _)
firstOdometer(history, normalized) ==
    IF history = <<>> THEN Null
    ELSE IF toUpperCase(trim(Head(history).vehicleReg)) = normalized
            /\ Head(history).odometerCurrent # Null
         THEN Head(history).odometerCurrent
         ELSE firstOdometer(Tail(history), normalized)

\* Variant: the key is compared as typed.
getLastOdometerForVehicle_asTyped(store, reg) ==
    firstOdometer(getReceiptHistory(store), reg)

\* getLastOdometerForVehicle(vehicleReg)
getLastOdometerForVehicle(store, reg) ==
    firstOdometer(getReceiptHistory(store), toUpperCase(trim(reg)))

\* Variant: the readings of every vehicle are collected.
RECURSIVE readingsOf_anyVehicle(_, _)
readingsOf_anyVehicle(history, normalized) ==
    IF history = <<>> THEN <<>>
    ELSE (IF Head(history).odometerCurrent # Null
          THEN <<valueOf(Head(history).odometerCurrent)>> ELSE <<>>)
         \o readingsOf_anyVehicle(Tail(history), normalized)

\* history.filter(...).map(e => e.odometerCurrent): the readings of the
\* vehicle, most recent first.
RECURSIVE readingsOf(_, _)
readingsOf(history, normalized) ==
    IF history = <<>> THEN <<>>
    ELSE (IF toUpperCase(trim(Head(history).vehicleReg)) = normalized
             /\ Head(history).odometerCurrent # Null
          THEN <<valueOf(Head(history).odometerCurrent)>> ELSE <<>>)
         \o readingsOf(Tail(history), normalized)

\* Variant: the size of the difference is kept, whatever its sign.
RECURSIVE distancesFrom_unsigned(_, _)
distancesFrom_unsigned(readings, i) ==
    IF i > Len(readings) - 1 THEN <<>>
    ELSE LET dist == readings[i] - readings[i + 1]
         IN  (IF dist > 0 THEN <<dist>>
              ELSE IF dist < 0 THEN <<0 - dist>> ELSE <<>>)
             \o distancesFrom_unsigned(readings, i + 1)

\* The loop over consecutive readings, from index i (1-based): the
\* positive differences newer - older.
RECURSIVE distancesFrom(_, _)
distancesFrom(readings, i) ==
    IF i > Len(readings) - 1 THEN <<>>
    ELSE LET dist == readings[i] - readings[i + 1]
         IN  (IF dist > 0 THEN <<dist>> ELSE <<>>)
             \o distancesFrom(readings, i + 1)

\* distances.reduce((sum, d) => sum + d, 0)
RECURSIVE reduceSum(_)
reduceSum(distances) ==
    IF distances = <<>> THEN 0 ELSE Head(distances) + reduceSum(Tail(distances))

\* Variant: the quotient is cut off.
round_floor(total, count) == total \div count

\* Math.round(total / count) for total >= 0, count > 0: halves go up.
round(total, count) == (2 * total + count) \div (2 * count)

\* getAverageDistanceForVehicle(vehicleReg)
getAverageDistanceForVehicle(store, reg) ==
    LET readings  == readingsOf(getReceiptHistory(store), toUpperCase(trim(reg)))
        distances == distancesFrom(readings, 1)
    IN  IF Len(readings) < 2 THEN Null
        ELSE IF Len(distances) = 0 THEN Null
        ELSE {round(reduceSum(distances), Len(distances))}

----------------------------------------------------------------------------
(* lib/api.ts: submitReceipt.                                              *)

\* What the collaborator can do with one request: the fetch rejects, the
\* response is not 2xx, the body is not JSON, or the body is one of Bodies.
Bodies ==
    { [success |-> "true",   status |-> "Saved", message |-> "saved"],
      [success |-> "false",  status |-> "Error", message |-> "refused"],
      [success |-> "false",  status |-> "Error", message |-> ""],
      [success |-> "absent", status |-> "Error", message |-> "refused"] }

Outcomes ==
    { [kind |-> "network", body |-> Null],
      [kind |-> "http",    body |-> Null],
      [kind |-> "badjson", body |-> Null] }
    \cup { [kind |-> "body", body |-> {b}] : b \in Bodies }

\* message || fallback
orElse(message, fallback) == IF message = "" THEN fallback ELSE message

\* submitReceipt(payload): rejects with an Error, or resolves with the body.
submitReceipt(outcome) ==
    IF outcome.kind = "network"
    THEN [threw |-> TRUE, message |-> "Failed to fetch", data |-> Null]
    ELSE IF outcome.kind = "http"
    THEN [threw |-> TRUE, message |-> "HTTP 500", data |-> Null]
    ELSE IF outcome.kind = "badjson"
    THEN [threw |-> TRUE, message |-> "Unexpected token", data |-> Null]
    ELSE LET data == valueOf(outcome.body)
         IN  IF data.success = "false"
             THEN [threw |-> TRUE,
                   message |-> orElse(data.message, "Receipt submission failed"),
                   data |-> Null]
             ELSE [threw |-> FALSE, message |-> "", data |-> {data}]

----------------------------------------------------------------------------
(* components/ReceiptCapture.tsx: values computed at render.               *)

Stations == {"SBPT.26.64E", "SBBF.168.186W"}

NoImage == "null"

litresNum == orNull(parseFloat(litres))

amountNum == orNull(parseFloat(amount))

odomCurrent == orNull(parseFloat(odometerCurrent))

odomPrevious == orNull(parseFloat(odometerPrevious))

pricePerLitre ==
    IF amountNum # Null /\ litresNum # Null /\ valueOf(litresNum) > 0
    THEN {<<valueOf(amountNum), valueOf(litresNum)>>}
    ELSE Null

distance ==
    IF odomCurrent # Null /\ odomPrevious # Null
       /\ valueOf(odomCurrent) > valueOf(odomPrevious)
    THEN {valueOf(odomCurrent) - valueOf(odomPrevious)}
    ELSE Null

\* Variant: the sign of the litres is not looked at.
fuelEfficiency_unguarded ==
    IF distance # Null /\ litresNum # Null
    THEN {<<valueOf(distance), valueOf(litresNum)>>}
    ELSE Null

fuelEfficiency ==
    IF distance # Null /\ litresNum # Null /\ valueOf(litresNum) > 0
    THEN {<<valueOf(distance), valueOf(litresNum)>>}
    ELSE Null

manualData ==
    [litres |-> litresNum, amount |-> amountNum, pricePerLitre |-> pricePerLitre,
     vehicleReg |-> trim(vehicleReg), odometerCurrent |-> odomCurrent,
     odometerPrevious |-> odomPrevious, distance |-> distance,
     fuelEfficiency |-> fuelEfficiency]

\* The entry.response.status === 'Saved' test of the duplicate check.
isSavedStatus(response) == response.status = "Saved"

\* Variant: the window includes its end.
isRecentDuplicate_inclusive(entry, kodLokasi, ms) ==
    /\ entry.kodLokasi = kodLokasi
    /\ isSavedStatus(entry.response)
    /\ ms - getTime(entry.timestamp) <= DUPLICATE_WINDOW_MS

\* The predicate handed to find() by the duplicate check of handleSubmit.
isRecentDuplicate(entry, kodLokasi, ms) ==
    /\ entry.kodLokasi = kodLokasi
    /\ isSavedStatus(entry.response)
    /\ ms - getTime(entry.timestamp) < DUPLICATE_WINDOW_MS

\* Array.prototype.find: the index of the first entry that is a recent
\* duplicate, 0 (undefined) when there is none.
RECURSIVE findFrom(_, _, _, _)
findFrom(history, i, kodLokasi, ms) ==
    IF i > Len(history) THEN 0
    ELSE IF isRecentDuplicate(history[i], kodLokasi, ms) THEN i
    ELSE findFrom(history, i + 1, kodLokasi, ms)

recentDuplicate(store, kodLokasi, ms) ==
    findFrom(getReceiptHistory(store), 1, kodLokasi, ms) # 0

\* The first line of handleSubmit: the early return.
submitRejected ==
    \/ imageBase64 = NoImage
    \/ submitInFlight
    \/ trim(vehicleReg) = <<>>
    \/ trim(odometerCurrent) = <<>>
    \/ litresNum = Null
    \/ amountNum = Null

\* canSubmit of Step3Content: what enables the Submit button.
canSubmit ==
    /\ Len(trim(vehicleReg)) > 0
    /\ Len(trim(odometerCurrent)) > 0
    /\ litresNum # Null /\ valueOf(litresNum) > 0
    /\ parseFloat(amount) # {} /\ valueOf(parseFloat(amount)) > 0

\* Variant: the duplicate check is left out.
submitPath_unchecked(bypassDuplicateCheck) ==
    IF submitRejected THEN "return" ELSE "submit"

\* The path handleSubmit(bypassDuplicateCheck) takes in the current state:
\* it returns early, find() throws on a stored value that is not an array,
\* the warning is shown, or the request is submitted.
submitPath(bypassDuplicateCheck) ==
    IF submitRejected THEN "return"
    ELSE IF ~bypassDuplicateCheck /\ historyThrows(storage)
    THEN "throw"
    ELSE IF ~bypassDuplicateCheck /\ recentDuplicate(storage, receiptStation, now)
    THEN "warn"
    ELSE "submit"

----------------------------------------------------------------------------
(* Inputs the user and the environment supply.                             *)

VehicleTexts == { <<" ", "a", "b", "1">> }

OdometerTexts == { <<"2", "5", "0">> }

LitresTexts == { <<"4", "0">> }

AmountTexts == { <<"9", "0">> }

RandomSuffixes == {0}

TickSteps == {DUPLICATE_WINDOW_MS}

\* Number of clock steps that lead to the instant ms.
ticksOf(ms) == ms \div DUPLICATE_WINDOW_MS

----------------------------------------------------------------------------
(* Initial state: nothing persisted, the modal mounted for a station.      *)

\* useState initial values of ReceiptCapture.
modalInitial ==
    /\ phase = "idle"
    /\ currentStep = 1
    /\ imagePreview = NoImage
    /\ imageBase64 = NoImage
    /\ submitInFlight = FALSE
    /\ vehicleReg = <<>>
    /\ odometerCurrent = <<>>
    /\ odometerPrevious = <<>>
    /\ litres = <<>>
    /\ amount = <<>>
    /\ useHistoryOdometer = TRUE
    /\ duplicateWarning = FALSE
    /\ resultMessage = ""
    /\ receiptResult = Null
    /\ pendingCompress = 0
    /\ pendingScan = 0
    /\ scanMode = "pending"

Init ==
    /\ storage = NoItem
    /\ now = 0
    /\ appended = 0
    /\ receiptStation \in Stations
    /\ modalInitial
    /\ calls = {}
    /\ issued = 0

----------------------------------------------------------------------------
(* ReceiptCapture: the form.                                               *)

\* The effect that pre-fills the previous odometer, run after a render in
\* which vehicleReg or useHistoryOdometer changed.
autoFill(reg, useHistory, previous) ==
    IF useHistory /\ Len(trim(reg)) >= 3
    THEN LET prev == getLastOdometerForVehicle(storage, reg)
         IN  IF prev # Null THEN String(valueOf(prev)) ELSE previous
    ELSE previous

onVehicleRegChange(text) ==
    /\ phase = "idle" /\ currentStep = 1
    /\ vehicleReg' = text
    /\ odometerPrevious' = autoFill(text, useHistoryOdometer, odometerPrevious)
    /\ UNCHANGED <<storeVars, receiptStation, phase, currentStep, imagePreview,
                   imageBase64, submitInFlight, odometerCurrent, litres, amount,
                   useHistoryOdometer, duplicateWarning, resultMessage,
                   receiptResult, pendingCompress, pendingScan, calls, issued,
                   scanMode>>

onOdometerCurrentChange(text) ==
    /\ phase = "idle" /\ currentStep = 1
    /\ odometerCurrent' = text
    /\ UNCHANGED <<storeVars, receiptStation, phase, currentStep, imagePreview,
                   imageBase64, submitInFlight, vehicleReg, odometerPrevious,
                   litres, amount, useHistoryOdometer, duplicateWarning,
                   resultMessage, receiptResult, pendingCompress, pendingScan, calls, issued,
                   scanMode>>

\* The previous-odometer input shown while the history lookup is off.
onOdometerPreviousChange(text) ==
    /\ phase = "idle" /\ currentStep = 1
    /\ ~useHistoryOdometer
    /\ odometerPrevious' = text
    /\ UNCHANGED <<storeVars, receiptStation, phase, currentStep, imagePreview,
                   imageBase64, submitInFlight, vehicleReg, odometerCurrent,
                   litres, amount, useHistoryOdometer, duplicateWarning,
                   resultMessage, receiptResult, pendingCompress, pendingScan, calls, issued,
                   scanMode>>

\* Variant: the lookup stores the history it parsed.
handleToggleHistory_writingBack ==
    /\ phase = "idle" /\ currentStep = 1
    /\ LET willUseHistory == ~useHistoryOdometer
           prev == getLastOdometerForVehicle(storage, vehicleReg)
           set  == IF willUseHistory /\ prev # Null
                   THEN String(valueOf(prev)) ELSE <<>>
       IN  /\ useHistoryOdometer' = willUseHistory
           /\ odometerPrevious' = autoFill(vehicleReg, willUseHistory, set)
    /\ storage' = setItem(getReceiptHistory(storage))
    /\ UNCHANGED <<now, appended, receiptStation, phase, currentStep,
                   imagePreview, imageBase64, submitInFlight, vehicleReg,
                   odometerCurrent, litres, amount, duplicateWarning,
                   resultMessage, receiptResult, pendingCompress, pendingScan,
                   calls, issued,
                   scanMode>>

handleToggleHistory ==
    /\ phase = "idle" /\ currentStep = 1
    /\ LET willUseHistory == ~useHistoryOdometer
           prev == getLastOdometerForVehicle(storage, vehicleReg)
           set  == IF willUseHistory /\ prev # Null
                   THEN String(valueOf(prev)) ELSE <<>>
       IN  /\ useHistoryOdometer' = willUseHistory
           /\ odometerPrevious' = autoFill(vehicleReg, willUseHistory, set)
    /\ UNCHANGED <<storeVars, receiptStation, phase, currentStep, imagePreview,
                   imageBase64, submitInFlight, vehicleReg, odometerCurrent,
                   litres, amount, duplicateWarning, resultMessage,
                   receiptResult, pendingCompress, pendingScan, calls, issued,
                   scanMode>>

onLitresChange(text) ==
    /\ phase = "idle" /\ currentStep = 2
    /\ litres' = text
    /\ UNCHANGED <<storeVars, receiptStation, phase, currentStep, imagePreview,
                   imageBase64, submitInFlight, vehicleReg, odometerCurrent,
                   odometerPrevious, amount, useHistoryOdometer,
                   duplicateWarning, resultMessage, receiptResult,
                   pendingCompress, pendingScan, calls, issued,
                   scanMode>>

onAmountChange(text) ==
    /\ phase = "idle" /\ currentStep = 2
    /\ amount' = text
    /\ UNCHANGED <<storeVars, receiptStation, phase, currentStep, imagePreview,
                   imageBase64, submitInFlight, vehicleReg, odometerCurrent,
                   odometerPrevious, litres, useHistoryOdometer,
                   duplicateWarning, resultMessage, receiptResult,
                   pendingCompress, pendingScan, calls, issued,
                   scanMode>>

handleNextStep ==
    /\ phase = "idle" /\ currentStep < 3
    /\ currentStep' =
         IF currentStep = 1
         THEN IF imageBase64 # NoImage /\ trim(vehicleReg) # <<>>
                 /\ trim(odometerCurrent) # <<>>
              THEN 2 ELSE 1
         ELSE IF litresNum # Null /\ valueOf(litresNum) > 0
                 /\ amountNum # Null /\ valueOf(amountNum) > 0
              THEN 3 ELSE 2
    /\ UNCHANGED <<storeVars, receiptStation, phase, imagePreview, imageBase64,
                   submitInFlight, formVars, duplicateWarning, resultMessage,
                   receiptResult, pendingCompress, pendingScan, calls, issued,
                   scanMode>>

handlePrevStep ==
    /\ phase = "idle" /\ currentStep > 1
    /\ currentStep' = currentStep - 1
    /\ UNCHANGED <<storeVars, receiptStation, phase, imagePreview, imageBase64,
                   submitInFlight, formVars, duplicateWarning, resultMessage,
                   receiptResult, pendingCompress, pendingScan, calls, issued,
                   scanMode>>

----------------------------------------------------------------------------
(* ReceiptCapture: the image.                                              *)

\* handleFileChange up to its await: the preview is shown and compressImage
\* is started.
handleFileChange ==
    /\ phase = "idle" /\ currentStep = 1
    /\ imagePreview = NoImage
    /\ pendingCompress < MaxPendingCompress
    /\ imagePreview' = "blob"
    /\ pendingCompress' = pendingCompress + 1
    /\ UNCHANGED <<storeVars, receiptStation, phase, currentStep, imageBase64,
                   submitInFlight, formVars, duplicateWarning, resultMessage,
                   receiptResult, calls, issued,
                   pendingScan,
                   scanMode>>

\* handleFileChange after its await, compressImage resolved.
compressResolved ==
    /\ pendingCompress > 0
    /\ pendingCompress' = pendingCompress - 1
    /\ imageBase64' = "jpeg"
    /\ scanMode' = "pending"
    /\ UNCHANGED <<storeVars, receiptStation, phase, currentStep, imagePreview,
                   submitInFlight, formVars, duplicateWarning, resultMessage,
                   receiptResult, calls, issued,
                   pendingScan>>

\* handleFileChange after its await, compressImage rejected: the catch block.
compressRejected ==
    /\ pendingCompress > 0
    /\ pendingCompress' = pendingCompress - 1
    /\ imagePreview' = NoImage
    /\ imageBase64' = NoImage
    /\ resultMessage' = "Failed to process image. Try again."
    /\ phase' = "error"
    /\ UNCHANGED <<storeVars, receiptStation, currentStep, submitInFlight,
                   formVars, duplicateWarning, receiptResult, calls, issued,
                   pendingScan,
                   scanMode>>

handleRemoveImage ==
    /\ phase = "idle" /\ currentStep = 1
    /\ imagePreview # NoImage
    /\ imagePreview' = NoImage
    /\ imageBase64' = NoImage
    /\ scanMode' = "pending"
    /\ UNCHANGED <<storeVars, receiptStation, phase, currentStep,
                   submitInFlight, formVars, duplicateWarning, resultMessage,
                   receiptResult, pendingCompress, pendingScan, calls, issued>>

----------------------------------------------------------------------------
(* ReceiptCapture: the AI scan.                                            *)

\* The litres and the amount scanReceipt may report (ExtractedReceiptData).
ScanLitres == { Null, {38}, {0 - 5} }

ScanAmounts == { Null, {75} }

\* What scanReceipt may settle with: a rejection or success = false
\* (ok = FALSE), or extracted data.
ScanResults ==
    { [ok |-> FALSE, litres |-> Null, amount |-> Null] }
    \cup { [ok |-> TRUE, litres |-> l, amount |-> a] :
                l \in ScanLitres, a \in ScanAmounts }

\* if (value) setField(String(value)): a null or 0 value leaves the field.
setIfTruthy(value, field) ==
    IF value # Null /\ value # {0} THEN String(valueOf(value)) ELSE field

\* handleStartScan up to its await: scanReceipt is started.
handleStartScan ==
    /\ phase = "idle" /\ currentStep = 1
    /\ imageBase64 # NoImage
    /\ scanMode \in {"pending", "skipped"}
    /\ pendingScan < MaxPendingScan
    /\ pendingScan' = pendingScan + 1
    /\ scanMode' = "scanning"
    /\ UNCHANGED <<storeVars, receiptStation, phase, currentStep, imagePreview,
                   imageBase64, submitInFlight, formVars, duplicateWarning,
                   resultMessage, receiptResult, pendingCompress, calls, issued>>

\* The "No, Manual" button shown for an image not yet scanned.
handleSkipScan ==
    /\ phase = "idle" /\ currentStep = 1
    /\ imageBase64 # NoImage
    /\ scanMode = "pending"
    /\ scanMode' = "skipped"
    /\ UNCHANGED <<storeVars, receiptStation, phase, currentStep, imagePreview,
                   imageBase64, submitInFlight, formVars, duplicateWarning,
                   resultMessage, receiptResult, pendingCompress, pendingScan,
                   calls, issued>>

\* handleStartScan after its await: scanReceipt settled with the result.
scanSettled(result) ==
    /\ pendingScan > 0
    /\ pendingScan' = pendingScan - 1
    /\ scanMode' = IF result.ok THEN "success" ELSE "error"
    /\ litres' = IF result.ok THEN setIfTruthy(result.litres, litres) ELSE litres
    /\ amount' = IF result.ok THEN setIfTruthy(result.amount, amount) ELSE amount
    /\ UNCHANGED <<storeVars, receiptStation, phase, currentStep, imagePreview,
                   imageBase64, submitInFlight, vehicleReg, odometerCurrent,
                   odometerPrevious, useHistoryOdometer, duplicateWarning,
                   resultMessage, receiptResult, pendingCompress, calls, issued>>

----------------------------------------------------------------------------
(* ReceiptCapture: submission.                                             *)

\* The argument the "Yes, Submit" button of the duplicate warning passes to
\* handleSubmit: it calls onSubmit(), so the parameter takes its default.
confirmBypass == FALSE

\* The request handed to submitReceipt, with the values handleSubmit closed
\* over.
newCall ==
    [id |-> issued + 1, kodLokasi |-> receiptStation,
     vehicleReg |-> trim(vehicleReg), odometerCurrent |-> odomCurrent,
     manualData |-> manualData]

\* handleSubmit(bypassDuplicateCheck), up to its await.
handleSubmit(bypassDuplicateCheck) ==
    /\ phase = "idle" /\ currentStep = 3
    /\ LET path == submitPath(bypassDuplicateCheck)
       IN  IF path \in {"return", "throw"}
           THEN UNCHANGED vars
           ELSE IF path = "warn"
           THEN /\ duplicateWarning' = TRUE
                /\ UNCHANGED <<storeVars, receiptStation, phase, currentStep,
                               imagePreview, imageBase64, submitInFlight,
                               formVars, resultMessage, receiptResult,
                               pendingCompress, pendingScan, calls, issued,
                   scanMode>>
           ELSE /\ issued < MaxIssued
                /\ duplicateWarning' = FALSE
                /\ submitInFlight' = TRUE
                /\ phase' = "submitting"
                /\ resultMessage' = ""
                /\ calls' = calls \cup {newCall}
                /\ issued' = issued + 1
                /\ UNCHANGED <<storeVars, receiptStation, currentStep,
                               imagePreview, imageBase64, formVars,
                               receiptResult, pendingCompress, pendingScan,
                   scanMode>>

\* The Submit button of step 3, enabled by canSubmit: onSubmit().
submitClicked ==
    /\ canSubmit
    /\ handleSubmit(FALSE)

\* The "Yes, Submit" button of the duplicate warning.
confirmDuplicateClicked ==
    /\ duplicateWarning
    /\ handleSubmit(confirmBypass)

\* The Cancel button of the duplicate warning.
onCancelDuplicate ==
    /\ phase = "idle" /\ currentStep = 3
    /\ duplicateWarning
    /\ duplicateWarning' = FALSE
    /\ UNCHANGED <<storeVars, receiptStation, phase, currentStep, imagePreview,
                   imageBase64, submitInFlight, formVars, resultMessage,
                   receiptResult, pendingCompress, pendingScan, calls, issued,
                   scanMode>>

\* Variant: the entry is built from the form as it is when the call settles.
historyEntry_fromForm(call, data, ms) ==
    [timestamp |-> toISOString(ms), kodLokasi |-> call.kodLokasi,
     vehicleReg |-> trim(vehicleReg), odometerCurrent |-> odomCurrent,
     manualData |-> manualData, response |-> data]

\* The entry handleSubmit appends for a call that resolved with data at ms.
historyEntry(call, data, ms) ==
    [timestamp |-> toISOString(ms), kodLokasi |-> call.kodLokasi,
     vehicleReg |-> call.vehicleReg, odometerCurrent |-> call.odometerCurrent,
     manualData |-> call.manualData, response |-> data]

\* Variant: the guard is released at the end of the try block only.
finallyInFlight_tryOnly(threw) == IF threw THEN submitInFlight ELSE FALSE

\* The finally block of handleSubmit: the value it leaves in submitInFlight.
finallyInFlight(threw) == FALSE

\* handleSubmit after its await: submitReceipt settled with the outcome.
\* When addReceiptToHistory throws inside the try, the catch block runs
\* after the success setters.
submitSettled(call, outcome, rnd) ==
    /\ call \in calls
    /\ calls' = calls \ {call}
    /\ LET result == submitReceipt(outcome)
           appendThrew == ~result.threw /\ historyThrows(storage)
       IN  /\ storage' =
                 IF result.threw THEN storage
                 ELSE addReceiptToHistory(storage,
                          historyEntry(call, valueOf(result.data), now), now, rnd)
           /\ receiptResult' =
                 IF result.threw THEN receiptResult ELSE result.data
           /\ resultMessage' =
                 IF result.threw THEN result.message
                 ELSE IF appendThrew THEN "history.unshift is not a function"
                 ELSE orElse(valueOf(result.data).message,
                             "Receipt recorded successfully")
           /\ phase' = IF result.threw \/ appendThrew THEN "error" ELSE "success"
           /\ submitInFlight' = finallyInFlight(result.threw \/ appendThrew)
    /\ UNCHANGED <<now, appended, receiptStation, currentStep, imagePreview,
                   imageBase64, formVars, duplicateWarning, pendingCompress, pendingScan,
                   issued,
                   scanMode>>

\* The collaborator settles one of the outstanding calls.
settled ==
    \E call \in calls, outcome \in Outcomes, rnd \in RandomSuffixes :
        submitSettled(call, outcome, rnd)

\* The value handleReset leaves in submitInFlight.
resetInFlight == FALSE

\* handleReset: "Record Another Receipt" and "Try Again".
handleReset ==
    /\ \/ phase = "error"
       \/ phase = "success" /\ receiptResult # Null
    /\ phase' = "idle"
    /\ currentStep' = 1
    /\ imagePreview' = NoImage
    /\ imageBase64' = NoImage
    /\ vehicleReg' = <<>>
    /\ odometerCurrent' = <<>>
    /\ odometerPrevious' = <<>>
    /\ litres' = <<>>
    /\ amount' = <<>>
    /\ resultMessage' = ""
    /\ receiptResult' = Null
    /\ duplicateWarning' = FALSE
    /\ useHistoryOdometer' = TRUE
    /\ scanMode' = "pending"
    /\ submitInFlight' = resetInFlight
    /\ UNCHANGED <<storeVars, receiptStation, pendingCompress, pendingScan, calls, issued>>

----------------------------------------------------------------------------
(* ReceiptHistory panel and the clock.                                     *)

\* handleClear of the history panel.
handleClear ==
    /\ storage' = clearReceiptHistory(storage)
    /\ appended' = 0
    /\ UNCHANGED <<now, modalVars, calls, issued>>

\* Time passes.
tick(step) ==
    /\ ticksOf(now + step) <= MaxTicks
    /\ now' = now + step
    /\ UNCHANGED <<storage, appended, modalVars, calls, issued>>

Next ==
    \/ \E text \in VehicleTexts : onVehicleRegChange(text)
    \/ \E text \in OdometerTexts : onOdometerCurrentChange(text)
    \/ \E text \in LitresTexts : onLitresChange(text)
    \/ \E text \in AmountTexts : onAmountChange(text)
    \/ handleToggleHistory
    \/ handleNextStep
    \/ handlePrevStep
    \/ handleFileChange
    \/ compressResolved
    \/ compressRejected
    \/ handleRemoveImage
    \/ submitClicked
    \/ confirmDuplicateClicked
    \/ onCancelDuplicate
    \/ settled
    \/ handleReset
    \/ handleClear
    \/ \E step \in TickSteps : tick(step)

Spec == Init /\ [][Next]_vars

----------------------------------------------------------------------------
(* The store on its own: entries appended one per millisecond.             *)

\* The entry appended at the instant ms.
driverEntry(ms) ==
    [timestamp |-> toISOString(ms), kodLokasi |-> "SBPT.26.64E",
     vehicleReg |-> <<"a", "b", "1">>, odometerCurrent |-> {ms},
     manualData |-> Null,
     response |-> [success |-> "true", status |-> "Saved", message |-> "saved"]]

storeAppend ==
    /\ now < MaxAppends
    /\ now' = now + 1
    /\ appended' = IF historyThrows(storage) THEN appended ELSE appended + 1
    /\ storage' = addReceiptToHistory(storage, driverEntry(now'), now', 0)
    /\ UNCHANGED <<modalVars, calls, issued>>

NextStore ==
    \/ storeAppend
    \/ handleClear

SpecStore == Init /\ [][NextStore]_vars

----------------------------------------------------------------------------
(* The store over an item that another writer may replace.                 *)

\* Items that are not the JSON of a history.
MalformedItems ==
    { [present |-> TRUE, json |-> "invalid", items |-> <<>>],
      [present |-> TRUE, json |-> "object",  items |-> <<>>] }

\* Something other than addReceiptToHistory stores an item under the key.
itemReplaced(item) ==
    /\ storage' = item
    /\ appended' = 0
    /\ UNCHANGED <<now, modalVars, calls, issued>>

NextBlob ==
    \/ storeAppend
    \/ handleClear
    \/ \E item \in MalformedItems : itemReplaced(item)

SpecBlob == Init /\ [][NextBlob]_vars

----------------------------------------------------------------------------
(* The collaborator settles every call: the call resolves or rejects.      *)

SpecLive == Init /\ [][Next]_vars /\ WF_vars(settled)

----------------------------------------------------------------------------
(* The duplicate check on its own: the user is at step 3 with a complete   *)
(* form, over a history left by earlier submissions at either station.     *)

\* Instants at which the earlier submissions were recorded.
DupInstants == {0, 1}

\* Bodies with which submitReceipt resolves.
ResolvedBodies == { b \in Bodies : ~submitReceipt([kind |-> "body", body |-> {b}]).threw }

\* An earlier submission: where, with what response, when.
Earlier == Stations \X ResolvedBodies \X DupInstants

earlierCall(kodLokasi) ==
    [id |-> 0, kodLokasi |-> kodLokasi, vehicleReg |-> <<"a", "b", "1">>,
     odometerCurrent |-> {250}, manualData |-> Null]

\* The store after the earlier submissions were recorded, oldest first.
RECURSIVE recordAll(_, _)
recordAll(store, earlier) ==
    IF earlier = <<>> THEN store
    ELSE LET e == Head(earlier)
         IN  recordAll(addReceiptToHistory(store,
                           historyEntry(earlierCall(e[1]), e[2], e[3]), e[3], 0),
                       Tail(earlier))

EarlierRuns == UNION { [1..n -> Earlier] : n \in 0..MaxDupEntries }

InitDup ==
    /\ \E run \in EarlierRuns : storage = recordAll(NoItem, run)
    /\ now = DUPLICATE_WINDOW_MS - 1
    /\ appended = 0
    /\ receiptStation \in Stations
    /\ phase = "idle"
    /\ currentStep = 3
    /\ imagePreview = "blob"
    /\ imageBase64 = "jpeg"
    /\ submitInFlight = FALSE
    /\ vehicleReg \in VehicleTexts
    /\ odometerCurrent \in OdometerTexts
    /\ odometerPrevious = <<>>
    /\ litres \in LitresTexts
    /\ amount \in AmountTexts
    /\ useHistoryOdometer = TRUE
    /\ duplicateWarning = FALSE
    /\ resultMessage = ""
    /\ receiptResult = Null
    /\ pendingCompress = 0
    /\ pendingScan = 0
    /\ scanMode = "pending"
    /\ calls = {}
    /\ issued = 0

\* A millisecond passes.
dupTick ==
    /\ now < DUPLICATE_WINDOW_MS - 1 + MaxDupTicks
    /\ now' = now + 1
    /\ UNCHANGED <<storage, appended, modalVars, calls, issued>>

NextDup ==
    \/ submitClicked
    \/ confirmDuplicateClicked
    \/ onCancelDuplicate
    \/ dupTick

SpecDup == InitDup /\ [][NextDup]_vars

----------------------------------------------------------------------------
(* The per-vehicle lookups on their own: the user enters a vehicle at      *)
(* step 1 over a history left by earlier submissions of several vehicles.  *)

\* Registrations as earlier submissions stored them (trimmed, as typed).
StoredRegs == { <<"A", "b", "1">>, <<"x", "b", "1">> }

\* Readings the earlier submissions stored; {} when none was parsed.
StoredOdometers == { Null, {1000}, {1200}, {1205} }

\* Registrations the user types.
MetricKeys ==
    { <<"a", "b", "1">>, <<" ", "A", "B", "1", " ">>, <<"x", "b", "1">> }

metricCall(reg, odometer) ==
    [id |-> 0, kodLokasi |-> "SBPT.26.64E", vehicleReg |-> reg,
     odometerCurrent |-> odometer, manualData |-> Null]

\* The store after the submissions of run were recorded, run[i] at instant i.
RECURSIVE recordReadings(_, _, _)
recordReadings(store, run, i) ==
    IF i > Len(run) THEN store
    ELSE recordReadings(
             addReceiptToHistory(store,
                 historyEntry(metricCall(run[i][1], run[i][2]),
                              [success |-> "true", status |-> "Saved",
                               message |-> "saved"], i), i, 0),
             run, i + 1)

MetricRuns ==
    UNION { [1..n -> StoredRegs \X StoredOdometers] : n \in 0..MaxMetricEntries }

InitMetrics ==
    /\ \E run \in MetricRuns : storage = recordReadings(NoItem, run, 1)
    /\ now = MaxMetricEntries + 1
    /\ appended = 0
    /\ receiptStation = "SBPT.26.64E"
    /\ modalInitial
    /\ calls = {}
    /\ issued = 0

NextMetrics ==
    \E text \in MetricKeys : onVehicleRegChange(text)

SpecMetrics == InitMetrics /\ [][NextMetrics]_vars

----------------------------------------------------------------------------
(* The trip figures on their own: the user fills the odometer fields at    *)
(* step 1, with the litres already typed, over a short history.            *)

TripStoredRegs == { <<"A", "b", "1">>, <<"a", "b">> }

TripStoredOdometers == { Null, {45230} }

TripKeys == { <<"a", "b", "1">>, <<"x", "b", "1">>, <<"a", "b">> }

TripOdometerTexts ==
    { <<"4", "5", "6", "3", "0">>, <<"4", "5", "2", "3", "0">>,
      <<"4", "4", "8", "0", "0">> }

TripPreviousTexts ==
    { <<"0">>, <<"4", "5", "2", "3", "0">>, <<"4", "4", "8", "0", "0">> }

TripLitresTexts == { <<>>, <<"0">>, <<"3", "8">>, <<"-", "5">> }

TripAmountTexts == { <<>>, <<"0">>, <<"9", "0">> }

TripRuns ==
    UNION { [1..n -> TripStoredRegs \X TripStoredOdometers] : n \in 0..MaxTripEntries }

InitTrip ==
    /\ \E run \in TripRuns : storage = recordReadings(NoItem, run, 1)
    /\ now = MaxTripEntries + 1
    /\ appended = 0
    /\ receiptStation = "SBPT.26.64E"
    /\ phase = "idle"
    /\ currentStep = 1
    /\ imagePreview = NoImage
    /\ imageBase64 = NoImage
    /\ submitInFlight = FALSE
    /\ vehicleReg = <<>>
    /\ odometerCurrent = <<>>
    /\ odometerPrevious = <<>>
    /\ litres \in TripLitresTexts
    /\ amount \in TripAmountTexts
    /\ useHistoryOdometer = TRUE
    /\ duplicateWarning = FALSE
    /\ resultMessage = ""
    /\ receiptResult = Null
    /\ pendingCompress = 0
    /\ pendingScan = 0
    /\ scanMode = "pending"
    /\ calls = {}
    /\ issued = 0

NextTrip ==
    \/ \E text \in TripKeys : onVehicleRegChange(text)
    \/ \E text \in TripOdometerTexts : onOdometerCurrentChange(text)
    \/ \E text \in TripPreviousTexts : onOdometerPreviousChange(text)
    \/ handleToggleHistory

SpecTrip == InitTrip /\ [][NextTrip]_vars

----------------------------------------------------------------------------
(* One attempt with everything that may happen around it: the user has     *)
(* picked the image and typed the registration and the odometer, over an   *)
(* empty history or one holding a submission saved at the station a moment *)
(* ago; a scan may be started, the figures are typed, the history may be   *)
(* cleared or its item replaced while the request is outstanding.          *)

AttemptPreviousTexts == { <<>>, <<"2", "0", "0">> }

AttemptStores ==
    { NoItem,
      recordAll(NoItem, << <<"SBPT.26.64E", CHOOSE b \in ResolvedBodies : b.status = "Saved", 0>> >>) }

InitAttempt ==
    /\ now = 0
    /\ appended = 0
    /\ receiptStation = "SBPT.26.64E"
    /\ phase = "idle"
    /\ currentStep = 1
    /\ imagePreview = "blob"
    /\ imageBase64 = "jpeg"
    /\ submitInFlight = FALSE
    /\ vehicleReg \in VehicleTexts
    /\ odometerCurrent \in OdometerTexts
    /\ odometerPrevious \in AttemptPreviousTexts
    /\ litres = <<>>
    /\ amount = <<>>
    /\ useHistoryOdometer = FALSE
    /\ duplicateWarning = FALSE
    /\ resultMessage = ""
    /\ receiptResult = Null
    /\ pendingCompress = 0
    /\ pendingScan = 0
    /\ scanMode = "pending"
    /\ calls = {}
    /\ issued = 0
    /\ storage \in AttemptStores

NextAttempt ==
    \/ handleStartScan
    \/ handleSkipScan
    \/ \E result \in ScanResults : scanSettled(result)
    \/ \E text \in LitresTexts : onLitresChange(text)
    \/ \E text \in AmountTexts : onAmountChange(text)
    \/ handleNextStep
    \/ handlePrevStep
    \/ submitClicked
    \/ confirmDuplicateClicked
    \/ onCancelDuplicate
    \/ settled
    \/ handleReset
    \/ handleClear
    \/ \E item \in MalformedItems : itemReplaced(item)
    \/ \E step \in TickSteps : tick(step)

SpecAttempt == InitAttempt /\ [][NextAttempt]_vars

----------------------------------------------------------------------------
(* The ids on their own: appends that may fall in the same millisecond.    *)

\* What Math.random().toString(36).slice(2, 7) may give.
IdSuffixes == {0, 1}

\* addReceiptToHistory called at the current instant.
idAppend(rnd) ==
    /\ appended < MaxIdAppends
    /\ appended' = appended + 1
    /\ storage' = addReceiptToHistory(storage, driverEntry(now), now, rnd)
    /\ UNCHANGED <<now, modalVars, calls, issued>>

\* Date.now() moves on by a millisecond.
idTick ==
    /\ now < MaxIdTicks
    /\ now' = now + 1
    /\ UNCHANGED <<storage, appended, modalVars, calls, issued>>

NextIds ==
    \/ \E rnd \in IdSuffixes : idAppend(rnd)
    \/ idTick
    \/ handleClear

SpecIds == Init /\ [][NextIds]_vars

----------------------------------------------------------------------------
(* Properties.                                                             *)

history == getReceiptHistory(storage)

\* The instant at which an entry was appended, as its id records it.
appendedAt(entry) == entry.id[1]

\* An entry of the station, recorded as saved, younger than five minutes.
flags(entry) ==
    /\ entry.kodLokasi = receiptStation
    /\ entry.response.status = "Saved"
    /\ now - appendedAt(entry) < 300000

flagged == \E i \in 1..Len(history) : flags(history[i])

\* C1: at most one call to the submission collaborator is outstanding for
\* the modal, whatever the interleaving of user actions and completions.
C1_AtMostOneOutstanding == Cardinality(calls) <= 1

\* What C2 counts as a failed collaborator call: no response, a non-2xx
\* response, an unparseable body, success = false, or a non-success status.
collaboratorFailed(outcome) ==
    \/ outcome.kind # "body"
    \/ valueOf(outcome.body).success = "false"
    \/ valueOf(outcome.body).status # "Saved"

\* C2: when the collaborator call fails nothing is appended: the history is
\* as before the attempt and the modal shows the error phase with a message.
C2_FailedCallAppendsNothing ==
    [][\A call \in calls, outcome \in Outcomes, rnd \in RandomSuffixes :
          (submitSettled(call, outcome, rnd) /\ collaboratorFailed(outcome))
          => /\ storage' = storage
             /\ phase' = "error"
             /\ resultMessage' # ""]_vars

\* A call left the set of outstanding calls and the modal shows success.
resolvedStep ==
    /\ \E call \in calls : calls' = calls \ {call}
    /\ phase' = "success"
    /\ receiptResult' # Null

\* The history gained exactly one entry, at the front, and lost at most the
\* entries past the retention window.
gainedOne ==
    LET after == getReceiptHistory(storage')
    IN  /\ after # <<>>
        /\ Len(after) = Min(Len(history) + 1, 50)
        /\ Tail(after) = SubSeq(history, 1, Len(after) - 1)

C4_AtMostMaxEntries == Len(history) <= 50

C4_Witness == appended = 51 /\ Len(history) = 50

\* C5: the store holds the entries appended since it was empty, newest
\* first, cut to the 50 most recent: after 51 appends the first is gone.
C5_NewestFirstWindow ==
    /\ Len(history) = Min(appended, 50)
    /\ \A i \in 1..Len(history) : appendedAt(history[i]) = now - i + 1
    /\ \A i \in 1..Len(history) : history[i] = [id |-> <<now - i + 1, 0>>] @@ driverEntry(now - i + 1)

C5_Witness ==
    /\ appended = 51
    /\ Len(history) = 50
    /\ appendedAt(history[1]) = now
    /\ appendedAt(history[50]) = now - 49

\* C6: whenever the duplicate warning shows, the confirm button ("Yes,
\* Submit") makes the submission proceed to the collaborator.
C6_ConfirmProceeds ==
    (phase = "idle" /\ currentStep = 3 /\ duplicateWarning)
        => submitPath(confirmBypass) = "submit"

\* C7: a submit without bypass that the duplicate check flags calls no
\* collaborator, leaves history, form and guard as they were, and leaves
\* the modal collecting with the duplicate warning set.
C7_FlaggedSubmitOnlyWarns ==
    [][(handleSubmit(FALSE) /\ ~submitRejected /\ flagged)
         => /\ duplicateWarning'
            /\ phase' = "idle" /\ currentStep' = 3
            /\ ~submitInFlight'
            /\ UNCHANGED <<storage, calls, issued, formVars, imageBase64,
                           imagePreview>>]_vars

C7_Witness ==
    /\ duplicateWarning
    /\ flagged
    /\ phase = "idle" /\ currentStep = 3
    /\ ~submitInFlight
    /\ calls = {}
    /\ issued = 1

\* C8: the duplicate check is true exactly when the history has an entry of
\* the same location, saved, and less than 300000 ms old: 299999 ms is
\* flagged, 300000 ms and more is not.
C8_DuplicateWindow ==
    /\ recentDuplicate(storage, receiptStation, now) <=> flagged
    /\ (phase = "idle" /\ duplicateWarning) => \E i \in 1..Len(history) :
           /\ history[i].kodLokasi = receiptStation
           /\ history[i].response.status = "Saved"

C8_Witness ==
    /\ duplicateWarning
    /\ \E i \in 1..Len(history) :
           flags(history[i]) /\ now - appendedAt(history[i]) = 299999
    /\ \A i \in 1..Len(history) :
           flags(history[i]) => now - appendedAt(history[i]) = 299999

\* C9: a submission that entered the submitting phase leaves it once the
\* collaborator call settles, and every settlement, resolved or rejected,
\* leaves the in-flight guard clear.
C9_GuardReleased ==
    /\ (phase = "submitting") ~> (phase # "submitting" /\ ~submitInFlight)
    /\ [][(\E call \in calls : calls' = calls \ {call}) => ~submitInFlight']_vars

C9_Witness ==
    /\ phase = "error"
    /\ resultMessage = "HTTP 500"
    /\ ~submitInFlight
    /\ calls = {}

\* C10: the in-flight guard is clear only when no collaborator call is
\* outstanding.
C10_ClearGuardMeansNoCall == ~submitInFlight => calls = {}

\* The modal shows the failure of a submission (not of the image processing).
submissionFailed ==
    /\ phase = "error"
    /\ resultMessage # "Failed to process image. Try again."

\* C11: leaving the failure state of a submission for a new attempt keeps
\* the vehicle registration, the odometer readings, the fuel data and the
\* captured image as they were.
C11_RetryKeepsEnteredData ==
    [][(submissionFailed /\ phase' = "idle")
         => UNCHANGED <<vehicleReg, odometerCurrent, odometerPrevious, litres,
                        amount, imageBase64, imagePreview>>]_vars

\* The stored item is there and is not the JSON of a history.
malformed == storage.present /\ storage.json # "array"

\* C12: over an item that is not a valid history, getReceiptHistory returns
\* the empty array, and the lookups, the duplicate check and the append
\* built on it do not throw.
C12_MalformedItemReadsEmpty ==
    malformed => /\ getReceiptHistoryIsArray(storage)
                 /\ getReceiptHistory(storage) = <<>>
                 /\ ~historyThrows(storage)

\* The stored entries of the vehicle the user typed that carry a reading,
\* by position in the history.
sameVehicle(reg, key) == toUpperCase(trim(reg)) = toUpperCase(trim(key))

readingPositions(key) ==
    { i \in 1..Len(history) :
        sameVehicle(history[i].vehicleReg, key) /\ history[i].odometerCurrent # Null }

\* C13: the last odometer of a vehicle is the reading of the first stored
\* entry of that vehicle, compared trimmed and upper-cased, that carries a
\* reading; entries without one are passed over; no such entry, no data.
C13_LastOdometerIsFirstReading ==
    LET positions == readingPositions(vehicleReg)
        result    == getLastOdometerForVehicle(storage, vehicleReg)
    IN  IF positions = {} THEN result = Null
        ELSE LET first == CHOOSE i \in positions : \A j \in positions : i <= j
             IN  result = history[first].odometerCurrent

C13_Witness ==
    /\ Len(history) = 3
    /\ sameVehicle(history[1].vehicleReg, vehicleReg)
    /\ history[1].odometerCurrent = Null
    /\ ~sameVehicle(history[2].vehicleReg, vehicleReg)
    /\ history[2].odometerCurrent = {1200}
    /\ sameVehicle(history[3].vehicleReg, vehicleReg)
    /\ history[3].odometerCurrent = {1000}
    /\ odometerPrevious = <<"1", "0", "0", "0">>

\* C14: keys that differ only in letter case or surrounding blanks give the
\* same last odometer and the same average distance, and a stored
\* registration is found by each of them.
KeySpellings ==
    { <<"a", "b", "1">>, <<" ", "A", "B", "1", " ">>, <<"A", "b", "1">>,
      <<"a", "B", "1", " ">> }

C14_KeysAreNormalized ==
    /\ LET last    == getLastOdometerForVehicle(storage, <<"A", "b", "1">>)
           average == getAverageDistanceForVehicle(storage, <<"A", "b", "1">>)
       IN  \A k \in KeySpellings :
             /\ getLastOdometerForVehicle(storage, k) = last
             /\ getAverageDistanceForVehicle(storage, k) = average
    /\ \A k \in KeySpellings :
         (\E i \in 1..Len(history) :
              /\ history[i].vehicleReg \in KeySpellings
              /\ history[i].odometerCurrent # Null)
         => getLastOdometerForVehicle(storage, k) # Null

C14_Witness ==
    /\ vehicleReg = <<" ", "A", "B", "1", " ">>
    /\ Len(history) = 1
    /\ history[1].vehicleReg = <<"A", "b", "1">>
    /\ history[1].odometerCurrent = {1205}
    /\ odometerPrevious = <<"1", "2", "0", "5">>

\* The readings of the vehicle the user typed, most recent first, and their
\* positive adjacent differences.
RECURSIVE readingsUpTo(_, _)
readingsUpTo(positions, n) ==
    IF n = 0 THEN <<>>
    ELSE readingsUpTo(positions, n - 1)
         \o (IF n \in positions
             THEN <<valueOf(history[n].odometerCurrent)>> ELSE <<>>)

vehicleReadings == readingsUpTo(readingPositions(vehicleReg), Len(history))

positiveSteps(readings) ==
    { i \in 1..(Len(readings) - 1) : readings[i] - readings[i + 1] > 0 }

RECURSIVE stepTotal(_, _)
stepTotal(readings, steps) ==
    IF steps = {} THEN 0
    ELSE LET i == CHOOSE j \in steps : TRUE
         IN  (readings[i] - readings[i + 1]) + stepTotal(readings, steps \ {i})

averageDistance == getAverageDistanceForVehicle(storage, vehicleReg)

\* C15: the average distance of a vehicle is the mean of the positive
\* differences between adjacent readings, rounded to the nearest integer
\* (a half goes up), and no data when no difference is positive.
C15_AverageOfPositiveSteps ==
    LET readings == vehicleReadings
        steps    == positiveSteps(readings)
        average  == averageDistance
    IN  IF steps = {} THEN average = Null
        ELSE /\ average # Null
             /\ LET n     == valueOf(average)
                    count == Cardinality(steps)
                    total == stepTotal(readings, steps)
                IN  /\ 2 * total - count < 2 * n * count
                    /\ 2 * n * count <= 2 * total + count

C15_Witness ==
    /\ vehicleReadings = <<1205, 1200, 1000>>
    /\ averageDistance = {103}

\* C16: fewer than two readings of the vehicle, no data, however many
\* readings other vehicles have.
C16_NeedsTwoReadings ==
    Cardinality(readingPositions(vehicleReg)) < 2 => averageDistance = Null

C16_Witness ==
    /\ Len(history) = 3
    /\ readingPositions(vehicleReg) = {2}
    /\ history[1].odometerCurrent = {1200}
    /\ history[3].odometerCurrent = {1000}
    /\ vehicleReg # <<>>
    /\ averageDistance = Null

\* C17, as stated: the readings 1000, 1000, 1200 (most recent first) give an
\* average built from one positive difference, the 200 between 1200 and 1000.
C17_EqualPairSkippedOriginal ==
    vehicleReadings = <<1000, 1000, 1200>> => averageDistance = {200}

\* C17, amended: the readings 1000, 1000, 1200 (most recent first) have the
\* differences 0 and -200, neither positive, and give no data; the readings
\* 1200, 1000, 1000 give the average 200 of their one positive difference;
\* differences that are all non-positive give no data.
C17_EqualPairSkipped ==
    LET readings == vehicleReadings
        average  == averageDistance
    IN  /\ readings = <<1000, 1000, 1200>> => average = Null
        /\ readings = <<1200, 1000, 1000>> => average = {200}
        /\ (\A i \in 1..(Len(readings) - 1) : readings[i] - readings[i + 1] <= 0)
             => average = Null

C17_Witness ==
    /\ vehicleReadings = <<1000, 1000, 1200>>
    /\ averageDistance = Null

\* The number a field shows, as the user reads it; {} for an empty field.
typed(text) ==
    CASE text = <<>> -> Null
      [] text = <<"0">> -> {0}
      [] text = <<"3", "8">> -> {38}
      [] text = <<"9", "0">> -> {90}
      [] text = <<"-", "5">> -> {0 - 5}
      [] text = <<"4", "4", "8", "0", "0">> -> {44800}
      [] text = <<"4", "5", "2", "3", "0">> -> {45230}
      [] text = <<"4", "5", "6", "3", "0">> -> {45630}

\* C18: the distance is current - previous whenever both readings are
\* present and current > previous, a previous reading of 0 included, and
\* not computable otherwise.
C18_DistanceIsDifference ==
    LET current  == typed(odometerCurrent)
        previous == typed(odometerPrevious)
    IN  distance = IF current # Null /\ previous # Null
                       /\ valueOf(current) > valueOf(previous)
                    THEN {valueOf(current) - valueOf(previous)}
                    ELSE Null

\* C19: the fuel efficiency is distance / litres exactly when the distance
\* is computable and the litres are greater than 0, and not computable,
\* never a number, otherwise.
C19_EfficiencyNeedsDistanceAndLitres ==
    LET amountOfFuel == typed(litres)
    IN  fuelEfficiency =
            IF distance # Null /\ amountOfFuel # Null /\ valueOf(amountOfFuel) > 0
            THEN {<<valueOf(distance), valueOf(amountOfFuel)>>}
            ELSE Null

C19_Witness ==
    /\ distance = {400}
    /\ litres = <<"3", "8">>
    /\ fuelEfficiency = {<<400, 38>>}

\* The stored entries of the vehicle the user typed, by position.
vehiclePositions ==
    { i \in 1..Len(history) : sameVehicle(history[i].vehicleReg, vehicleReg) }

\* C20: with the history lookup on, the previous odometer shows the reading
\* of the latest submission of the vehicle entered, and a greater current
\* reading gives their difference as distance; with no submission of that
\* vehicle in the history the previous odometer is empty and neither
\* distance nor fuel efficiency is computable.
C20_PrefillFollowsHistory ==
    (useHistoryOdometer /\ trim(vehicleReg) # <<>>) =>
        IF vehiclePositions = {}
        THEN odometerPrevious = <<>> /\ distance = Null /\ fuelEfficiency = Null
        ELSE LET latest == CHOOSE i \in vehiclePositions :
                               \A j \in vehiclePositions : i <= j
                 X == history[latest].odometerCurrent
                 Y == typed(odometerCurrent)
             IN  X # Null =>
                   /\ typed(odometerPrevious) = X
                   /\ (Y # Null /\ valueOf(Y) > valueOf(X))
                        => distance = {valueOf(Y) - valueOf(X)}

\* C27: the price per litre is amount / litres whenever the litres are
\* greater than 0, for every amount entered, an amount of 0 included, and not
\* computable otherwise.
C27_PriceIsAmountOverLitres ==
    LET paid == typed(amount)
        fuel == typed(litres)
    IN  pricePerLitre =
            IF paid # Null /\ fuel # Null /\ valueOf(fuel) > 0
            THEN {<<valueOf(paid), valueOf(fuel)>>}
            ELSE Null

\* C29: while the history lookup is on, a previous odometer shown in the
\* field is a reading stored for the vehicle currently entered; after the
\* registration changes to a vehicle without history, or to fewer than 3
\* characters, the field does not keep the earlier vehicle's reading.
C29_PrefillBelongsToVehicle ==
    (useHistoryOdometer /\ odometerPrevious # <<>>) =>
        \E i \in vehiclePositions :
            history[i].odometerCurrent = typed(odometerPrevious)

\* The ids of the entries of a history.
idsOf(entries) == { entries[i].id : i \in 1..Len(entries) }

\* The entries of a history whose id is among ids, in their stored order.
kept(entries, ids) ==
    LET isKept(entry) == entry.id \in ids
    IN  SelectSeq(entries, isKept)

\* C24: stored entries are immutable: across every step that writes the
\* store, the entries that remain are, field by field and in the same
\* relative order, the entries that were there before.
C24_StoredEntriesImmutable ==
    [][LET before == getReceiptHistory(storage)
           after  == getReceiptHistory(storage')
       IN  kept(after, idsOf(before)) = kept(before, idsOf(after))]_vars

C24_Witness ==
    /\ appended = 52
    /\ Len(history) = 50
    /\ history[50] = [id |-> <<3, 0>>] @@ driverEntry(3)
    /\ history[2] = [id |-> <<51, 0>>] @@ driverEntry(51)

\* C25: after the history is cleared, whatever the stored item was before,
\* a malformed item included, getReceiptHistory returns the empty array, and
\* it keeps doing so until something is stored again.
C25_ClearedReadsEmpty ==
    [][/\ handleClear =>
            /\ getReceiptHistory(storage') = <<>>
            /\ getReceiptHistoryIsArray(storage')
       /\ (/\ ~storage.present
           /\ ~storeAppend
           /\ ~\E item \in MalformedItems : itemReplaced(item)) =>
            /\ getReceiptHistory(storage') = <<>>
            /\ getReceiptHistoryIsArray(storage')]_vars

C25_Witness ==
    /\ ~storage.present
    /\ now = 51
    /\ appended = 0
    /\ getReceiptHistory(storage) = <<>>

\* C28: the ids of the stored entries are pairwise distinct, also for
\* entries appended within the same millisecond.
C28_IdsPairwiseDistinct ==
    \A i, j \in 1..Len(history) : i # j => history[i].id # history[j].id

\* A step in which the history is looked up: the registration or the lookup
\* switch changes (last odometer), or handleSubmit runs its duplicate check
\* and warns or goes on to submit.
lookupStep ==
    \/ vehicleReg' # vehicleReg
    \/ useHistoryOdometer' # useHistoryOdometer
    \/ odometerPrevious' # odometerPrevious
    \/ duplicateWarning' # duplicateWarning
    \/ phase # "submitting" /\ phase' = "submitting"

\* C26: reading the history has no effect on the store: the lookups of the
\* last odometer and the duplicate check leave the stored item as it was, so
\* a second read returns what the first returned.
C26_ReadsLeaveStoreAlone ==
    [][lookupStep =>
          /\ storage' = storage
          /\ getReceiptHistory(storage') = getReceiptHistory(storage)]_vars

C26_Witness ==
    /\ Len(history) = 1
    /\ phase = "idle"
    /\ currentStep = 1
    /\ useHistoryOdometer
    /\ vehicleReg = <<" ", "a", "b", "1">>
    /\ odometerPrevious = <<"2", "5", "0">>

\* A step in which handleSubmit hands a request to submitReceipt.
callIssued == issued' > issued

\* A step in which submitReceipt settles and handleSubmit shows the outcome.
outcomeShown == calls' # calls /\ issued' = issued /\ phase' \in {"success", "error"}

\* C23: a request goes to the collaborator only when the duplicate check of
\* that attempt found nothing or the warning was confirmed, and the outcome
\* of an attempt is shown only from the submitting state of that attempt.
C23_AttemptStateMachine ==
    [][/\ callIssued =>
            \/ ~recentDuplicate(storage, receiptStation, now)
            \/ duplicateWarning
       /\ outcomeShown => phase = "submitting"]_vars

\* Whether the text of a field is a number greater than 0.
positiveField(text) ==
    LET value == parseFloat(text)
    IN  value # {} /\ valueOf(value) > 0

\* A required field is missing or invalid.
invalidForm ==
    \/ imageBase64 = NoImage
    \/ trim(vehicleReg) = <<>>
    \/ trim(odometerCurrent) = <<>>
    \/ ~positiveField(litres)
    \/ ~positiveField(amount)

\* C22: a submit attempt over a form with a required field missing or
\* invalid, from the Submit button or from the confirm button of the
\* duplicate warning, issues no request and leaves the history, the phase
\* and the in-flight guard as they were.
C22_InvalidFormSubmitsNothing ==
    [][(invalidForm /\ (submitClicked \/ confirmDuplicateClicked)) =>
          /\ storage' = storage
          /\ calls' = calls
          /\ issued' = issued
          /\ phase' = phase
          /\ submitInFlight' = submitInFlight]_vars

\* C21: the entry appended when the collaborator call resolves carries the
\* distance and the fuel efficiency computed for that submission (or null),
\* the registration, the current odometer and the collaborator's response,
\* and they are the values that were sent with the request: what the form
\* showed when the request was issued, whatever it shows when the call
\* settles.
C21_EntryCarriesWhatWasSent ==
    [][/\ callIssued =>
            \E call \in calls' \ calls :
                /\ call.manualData.distance = distance
                /\ call.manualData.fuelEfficiency = fuelEfficiency
                /\ call.vehicleReg = trim(vehicleReg)
                /\ call.odometerCurrent = odomCurrent
       /\ \A call \in calls, outcome \in Outcomes, rnd \in RandomSuffixes :
            (submitSettled(call, outcome, rnd) /\ storage' # storage) =>
                LET entry == getReceiptHistory(storage')[1]
                IN  /\ entry.manualData = call.manualData
                    /\ entry.vehicleReg = call.vehicleReg
                    /\ entry.odometerCurrent = call.odometerCurrent
                    /\ entry.response = valueOf(outcome.body)
                    /\ receiptResult' = {entry.response}]_vars

C21_Witness ==
    /\ phase = "success"
    /\ Len(history) >= 1
    /\ history[1].response \in receiptResult
    /\ history[1].manualData.litres = {40}
    /\ litres = <<"3", "8">>
    /\ history[1].manualData.distance = {50}
    /\ history[1].manualData.fuelEfficiency = {<<50, 40>>}
    /\ history[1].odometerCurrent = {250}

\* C30: whenever the collaborator saved the receipt, the attempt ends in
\* the success phase showing the collaborator's response, even when the
\* history entry cannot be stored; the modal does not report a failure.
C30_SavedReceiptShowsSuccess ==
    [][\A call \in calls, outcome \in Outcomes, rnd \in RandomSuffixes :
          (submitSettled(call, outcome, rnd) /\ ~collaboratorFailed(outcome))
          => /\ phase' = "success"
             /\ receiptResult' = outcome.body]_vars

====
